---- MODULE Spec2Model ----
(***************************************************************************)
(* Pending-upload lifecycle tracker of upload-vimeo-server.                *)
(*                                                                         *)
(* The store is the Redis instance used by src/lib/uploadStore.ts: the     *)
(* keys vimeo:pending:<token>, the keys vimeo:confirmed:<video_id> and the *)
(* sorted set vimeo:pending:index.  Every `await redis.x(...)` of the      *)
(* source is one atomic step of the request that issues it, so requests    *)
(* interleave between their store operations exactly as they can on the    *)
(* server.  Three kinds of request are modelled: the create-upload route   *)
(* (storePendingUpload), the confirm-upload route (confirmPendingUpload)   *)
(* and the cleanup route (listExpiredPending, vimeoDeleteVideo,            *)
(* markDeleted).  The cleanup is modelled twice: as the route of           *)
(* src/app/api/vimeo/cleanup-pending/route.ts and as the handler of the    *)
(* cron route (src/unnamed/part_003), which checks isConfirmed per item    *)
(* and retires a record only after the host deleted its video.  The        *)
(* status-based store in the second half of uploadStore.ts (createPending, *)
(* confirmByToken, listExpiredPending over pending_by_time) has its own    *)
(* actions and its own specification.                                      *)
(*                                                                         *)
(* Timestamps are integers (milliseconds scaled down); tokens are small    *)
(* integers standing for the random hex strings, video ids are VideoOf of  *)
(* the token they were registered with (the host assigns a fresh id to     *)
(* every placeholder).  The payload of a confirmed marker (confirmed_at)   *)
(* is not read by any code path and is left out; the 30-day expiry of the  *)
(* marker is far beyond the horizon of the model and is left out too.      *)
(***************************************************************************)
EXTENDS Integers, Sequences, FiniteSets, TLC

\* ---------------------------------------------------------------- bounds
MaxUploads == 2   \* uploads initiated in one behaviour (tokens 1..MaxUploads)
MaxTime    == 2   \* the clock runs over 0..MaxTime
MaxLimit   == 2   \* the cleanup route is called with limit in 1..MaxLimit
MaxHours   == 1   \* ... and with a staleness threshold in 1..MaxHours

\* ------------------------------------------------------------- universes
BogusToken == 0   \* a token the server never issued (client-supplied)
Tokens     == 1..MaxUploads
VideoOf(t) == 10 + t
Videos     == { VideoOf(t) : t \in Tokens }

\* Date.parse of a string that is not a date
NaN == -1000

\* new Date(ms).toISOString(), and Date.parse of it
toISOString(ms) == [iso |-> ms]
InvalidDate == [iso |-> NaN]
DateParse(s) == IF s = InvalidDate THEN NaN ELSE s.iso

\* redis.get of a key that does not exist yields null
Null == [video_id |-> 0, created_at |-> InvalidDate]

VARIABLES
  now,        \* Date.now()
  pending,    \* vimeo:pending:<token> -> PendingRecord   (live keys only)
  index,      \* vimeo:pending:index: member token -> score
  confirmed,  \* the video ids v for which vimeo:confirmed:<v> exists
  used,       \* tokens generated so far
  issued,     \* tokens returned to a client (their create request is over)
  crt,        \* the create-upload request in flight
  cfm,        \* the confirm-upload request in flight
  swp,        \* the cleanup request in flight (the one that is running)
  other,      \* a second cleanup request in flight, waiting at an await
  vimeo,      \* the host: the video ids that exist on it
  confirmDone, \* history: video ids of the confirm calls that have returned
  last        \* history: the confirm call that returned last, if no other
              \* request or expiry has begun since

vars == << now, pending, index, confirmed, used, issued,
           crt, cfm, swp, other, vimeo, confirmDone, last >>

\* ------------------------------------------------------ store primitives
\* redis.get(pendingKey(token))
redisGet(p, token) == IF token \in DOMAIN p THEN p[token] ELSE Null

\* redis.set(pendingKey(token), rec, {ex})
redisSet(p, token, rec) ==
  [ t \in (DOMAIN p) \cup {token} |-> IF t = token THEN rec ELSE p[t] ]

\* redis.del(pendingKey(token)); deleting a missing key is not an error
redisDel(p, token) == [ t \in (DOMAIN p) \ {token} |-> p[t] ]

\* redis.zadd(INDEX, {score, member})
redisZadd(idx, score, member) ==
  [ t \in (DOMAIN idx) \cup {member} |-> IF t = member THEN score ELSE idx[t] ]

\* redis.zrem(INDEX, member); removing a missing member is not an error
redisZrem(idx, member) == [ t \in (DOMAIN idx) \ {member} |-> idx[t] ]

\* the order of a sorted set: by score, ties by member
ZLess(idx, a, b) == \/ idx[a] < idx[b]
                    \/ idx[a] = idx[b] /\ a < b

RECURSIVE ZSorted(_, _)
ZSorted(idx, S) ==
  IF S = {} THEN << >>
  ELSE LET m == CHOOSE a \in S : \A b \in S \ {a} : ZLess(idx, a, b)
       IN  << m >> \o ZSorted(idx, S \ {m})

Take(s, n) == IF Len(s) <= n THEN s ELSE SubSeq(s, 1, n)

\* a range query that ignores its upper score
redisZrange_unbounded(idx, min, max, count) ==
  Take(ZSorted(idx, { t \in DOMAIN idx : min <= idx[t] }), count)

\* a range query read from the highest score down (rev: true)
redisZrange_rev(idx, min, max, count) ==
  LET up == ZSorted(idx, { t \in DOMAIN idx :
                             min <= idx[t] /\ idx[t] <= max })
  IN  Take([k \in 1..Len(up) |-> up[Len(up) + 1 - k]], count)

\* redis.zrange(INDEX, min, max, {byScore, offset: 0, count})
redisZrange(idx, min, max, count) ==
  Take(ZSorted(idx, { t \in DOMAIN idx : min <= idx[t] /\ idx[t] <= max }),
       count)

\* ------------------------------------------------------------------ Init
NoCall == [token |-> BogusToken, video |-> 0, result |-> "none"]

NoSnapshot == [on |-> FALSE, calls |-> FALSE, alone |-> FALSE,
               secret |-> FALSE, provided |-> "none",
               pending |-> << >>, index |-> << >>, confirmed |-> {}]

NoReply == [ok |-> FALSE, upload_link |-> FALSE, uri |-> "absent"]

IdleCrt == [pc |-> "idle", token |-> BogusToken, created_at |-> InvalidDate,
            status |-> 0, err |-> "none", reply |-> NoReply,
            pre |-> NoSnapshot]
IdleCfm == [pc |-> "idle", token |-> BogusToken, video |-> 0, rec |-> Null,
            result |-> "none", prev |-> NoCall,
            pre |-> NoSnapshot]
IdleSwp == [pc |-> "idle", handler |-> FALSE,
            query |-> [minutes |-> [kind |-> "absent", n |-> 0],
                       hours |-> [kind |-> "absent", n |-> 0]],
            minutes |-> 0, cutoffMin |-> 0,
            hours |-> 0, cutoff |-> InvalidDate, limit |-> 0,
            tokens |-> << >>,
            i |-> 0, rec |-> Null, out |-> << >>, j |-> 0, deleted |-> 0,
            results |-> << >>,
            status |-> 0, failed |-> {}, markErrors |-> {},
            remoteCalls |-> {}, doneBefore |-> {}, markerSeen |-> {},
            checkErrors |-> {}, unretired |-> {},
            retry |-> {}, pre |-> NoSnapshot]

Init ==
  /\ now = 0
  /\ pending = << >>
  /\ index = << >>
  /\ confirmed = {}
  /\ used = {}
  /\ issued = {}
  /\ crt = IdleCrt
  /\ cfm = IdleCfm
  /\ swp = IdleSwp
  /\ other = IdleSwp
  /\ vimeo = {}
  /\ confirmDone = {}
  /\ last = NoCall

\* no request is in flight
Quiet == /\ crt.pc = "idle" /\ cfm.pc = "idle"
         /\ swp.pc = "idle" /\ other.pc = "idle"

\* history: the store as a request finds it when it begins, and whether no
\* other cleanup request is in flight then
Snapshot == [on |-> TRUE, calls |-> FALSE, alone |-> other.pc = "idle",
             secret |-> FALSE, provided |-> "none",
             pending |-> pending, index |-> index, confirmed |-> confirmed]

\* history: the same, for a request whose confirm calls are recorded as well
CallHistory == [Snapshot EXCEPT !.calls = TRUE]

\* ------------------------------------------------------- the environment
\* time passes
Tick ==
  /\ now < MaxTime
  /\ now' = now + 1
  /\ UNCHANGED << vimeo, other, pending, index, confirmed, used, issued,
                  crt, cfm, swp, confirmDone, last >>

\* the key vimeo:pending:<token> reaches its expiry (set with ex: TTL_SECONDS)
\* and Redis drops it; the sorted set knows nothing of it
TTLExpire(token) ==
  /\ token \in DOMAIN pending
  /\ pending' = redisDel(pending, token)
  /\ last' = NoCall
  /\ UNCHANGED << vimeo, other, now, index, confirmed, used, issued,
                  crt, cfm, swp, confirmDone >>

\* const TTL_SECONDS = Number(... || 6 * 60 * 60), and the staleness
\* threshold of a cleanup request that names none
TTL_SECONDS == 21600
DEFAULT_HOURS == 24

\* the clock of the model counts hours (the unit of the hours parameter)
TTL_HOURS == TTL_SECONDS \div (60 * 60)

\* an hour passes, and Redis drops every key vimeo:pending:<token> that was
\* set TTL_SECONDS ago or earlier (set and created_at are of the same
\* instant: the route stores the record right after it made created_at)
TickTTL ==
  /\ now < DEFAULT_HOURS + MaxTime
  /\ now' = now + 1
  /\ pending' = [t \in { u \in DOMAIN pending :
                           DateParse(pending[u].created_at) + TTL_HOURS
                              > now + 1 } |-> pending[t]]
  /\ last' = NoCall
  /\ UNCHANGED << vimeo, other, index, confirmed, used, issued,
                  crt, cfm, swp, confirmDone >>

\* ------------------------------------------------- create-upload request
\* a route that answers 200 whatever was thrown
createPOST_catch_ok(err) == 200

\* catch (err) { return NextResponse.json({error: "Failed to create Vimeo
\* upload", details}, {status: 500}) }: the one catch of the route takes
\* what vimeoCreateTusUpload throws and what storePendingUpload throws
createPOST_catch(err) == 500

\* what the host answers to POST /me/videos: resp.ok, whether the body has
\* upload.upload_link, and its uri: absent, "/videos/" with no id after the
\* last slash, or "/videos/<id>"
HostReplies == [ok : BOOLEAN, upload_link : BOOLEAN,
                uri : {"absent", "noid", "full"}]

\* the reply of a host that has created the placeholder
Created201 == [ok |-> TRUE, upload_link |-> TRUE, uri |-> "full"]

\* const video_id = (video_uri || "").split("/").pop(): whether it is a
\* non-empty string
HasVideoId(uri) == uri = "full"

\* a vimeoCreateTusUpload that asks for the upload link only
CreateThrows_linkOnly(reply) == ~reply.ok \/ ~reply.upload_link

\* if (!resp.ok) throw ...;
\* if (!upload_link || !video_uri || !video_id) throw ...
CreateThrows(reply) ==
  \/ ~reply.ok
  \/ ~reply.upload_link \/ reply.uri = "absent" \/ ~HasVideoId(reply.uri)

\* the body of the 200 response of the create route: {...created,
\* folder_add_ok, pending_token}, of which upload_link and video_id are
\* kept (whether each is a non-empty string)
createPOST_body(c) ==
  [upload_link |-> c.reply.upload_link, video_id |-> HasVideoId(c.reply.uri)]

\* POST of the create-upload route: the host creates the placeholder, the
\* route generates pending_token and calls storePendingUpload, whose first
\* store operation is redis.set(pendingKey(token), rec, {ex: TTL_SECONDS})
storePendingUpload_set(token, reply, snapshot) ==
  /\ crt.pc = "idle"
  /\ token \in Tokens \ used
  /\ ~CreateThrows(reply)
  /\ LET created_at == toISOString(now)
         rec == [video_id |-> VideoOf(token), created_at |-> created_at]
     IN  /\ pending' = redisSet(pending, token, rec)
         /\ crt' = [IdleCrt EXCEPT !.pc = "zadd", !.token = token,
                                   !.created_at = created_at,
                                   !.reply = reply,
                                   !.pre = snapshot]
  /\ used' = used \cup {token}
  /\ vimeo' = vimeo \cup {VideoOf(token)}
  /\ last' = NoCall
  /\ UNCHANGED << other, now, index, confirmed, issued, cfm, swp,
                  confirmDone >>

\* a storePendingUpload whose index write goes through before it throws
storePendingUpload_zadd_throw_late ==
  /\ crt.pc = "zadd"
  /\ index' = redisZadd(index, DateParse(crt.created_at), crt.token)
  /\ crt' = [crt EXCEPT !.pc = "done", !.err = "zadd",
                        !.status = createPOST_catch("zadd")]
  /\ UNCHANGED << vimeo, other, now, pending, confirmed, used, issued,
                  cfm, swp, confirmDone, last >>

\* the redis.zadd of storePendingUpload rejects after the redis.set went
\* through: the record stays without an index entry, the catch answers
storePendingUpload_zadd_throw ==
  /\ crt.pc = "zadd"
  /\ crt' = [crt EXCEPT !.pc = "done", !.err = "zadd",
                        !.status = createPOST_catch("zadd")]
  /\ UNCHANGED << vimeo, other, now, pending, index, confirmed, used, issued,
                  cfm, swp, confirmDone, last >>

\* a storePendingUpload that writes no index entry
storePendingUpload_zadd_skipped ==
  /\ crt.pc = "zadd"
  /\ crt' = [crt EXCEPT !.pc = "done", !.status = 200]
  /\ UNCHANGED << vimeo, other, now, pending, index, confirmed, used, issued,
                  cfm, swp, confirmDone, last >>

\* if (!Number.isNaN(createdMs)) redis.zadd(INDEX, {score: createdMs, member})
\* and storePendingUpload returns: the route has its 200 response
storePendingUpload_zadd ==
  /\ crt.pc = "zadd"
  /\ LET createdMs == DateParse(crt.created_at)
     IN  index' = IF createdMs # NaN
                  THEN redisZadd(index, createdMs, crt.token)
                  ELSE index
  /\ crt' = [crt EXCEPT !.pc = "done", !.status = 200]
  /\ UNCHANGED << vimeo, other, now, pending, confirmed, used, issued, cfm,
                  swp, confirmDone, last >>

\* vimeoCreateTusUpload throws (the host refuses the placeholder, or its
\* answer lacks the upload link): the catch of the route answers 500 before
\* any token is generated
vimeoCreateTusUpload_throw(reply, snapshot) ==
  /\ crt.pc = "idle"
  /\ CreateThrows(reply)
  /\ crt' = [IdleCrt EXCEPT !.pc = "done", !.err = "vimeo",
                            !.reply = reply,
                            !.status = createPOST_catch("vimeo"),
                            !.pre = snapshot]
  /\ UNCHANGED << vimeo, other, now, pending, index, confirmed, used, issued,
                  cfm, swp, confirmDone, last >>

\* the host has created the placeholder and the redis.set of
\* storePendingUpload rejects: nothing is stored, the catch answers
storePendingUpload_set_throw(token, snapshot) ==
  /\ crt.pc = "idle"
  /\ token \in Tokens \ used
  /\ crt' = [IdleCrt EXCEPT !.pc = "done", !.token = token,
                            !.reply = Created201,
                            !.created_at = toISOString(now),
                            !.err = "set",
                            !.status = createPOST_catch("set"),
                            !.pre = snapshot]
  /\ used' = used \cup {token}
  /\ vimeo' = vimeo \cup {VideoOf(token)}
  /\ last' = NoCall
  /\ UNCHANGED << other, now, pending, index, confirmed, issued, cfm, swp,
                  confirmDone >>

\* the response of the create route reaches the client, with pending_token
\* in it when it is the 200 one
createPOST_return ==
  /\ crt.pc = "done"
  /\ issued' = IF crt.status = 200 THEN issued \cup {crt.token} ELSE issued
  /\ crt' = IdleCrt
  /\ UNCHANGED << vimeo, other, now, pending, index, confirmed, used, cfm,
                  swp, confirmDone, last >>

\* ------------------------------------------------ confirm-upload request
\* history: the confirm call c returns result to its route
Returned(c, result) ==
  IF c.pre.calls
  THEN /\ confirmDone' = confirmDone \cup {c.video}
       /\ last' = [token |-> c.token, video |-> c.video, result |-> result]
  ELSE UNCHANGED << confirmDone, last >>

\* a field the request body lacks (undefined, or the empty string)
Missing == -1

\* a validation that asks for the token only
MissingField_tokenOnly(token, video) == token = Missing

\* if (!pending_token || !video_id)
MissingField(token, video) == token = Missing \/ video = Missing

\* POST of the confirm route with a body that lacks a field:
\* NextResponse.json({error: "Missing pending_token or video_id"}, 400)
confirmPOST_invalid(token, video, snapshot) ==
  /\ cfm.pc = "idle"
  /\ MissingField(token, video)
  /\ token \in issued \cup {BogusToken, Missing}
  /\ video \in { VideoOf(t) : t \in issued } \cup {Missing}
  /\ cfm' = [IdleCfm EXCEPT !.pc = "done", !.token = token, !.video = video,
                            !.result = "invalid", !.pre = snapshot]
  /\ last' = NoCall
  /\ UNCHANGED << vimeo, other, now, pending, index, confirmed, used, issued,
                  crt, swp, confirmDone >>

\* POST of the confirm route with both fields, up to the first store
\* operation of confirmPendingUpload: const rec = await redis.get(key)
confirmPendingUpload_get(token, video, snapshot) ==
  /\ cfm.pc = "idle"
  /\ ~MissingField(token, video)
  /\ token \in issued \cup {BogusToken, Missing}
  /\ video \in { VideoOf(t) : t \in issued } \cup {Missing}
  /\ cfm' = [pc |-> "read", token |-> token, video |-> video,
             rec |-> redisGet(pending, token), result |-> "none",
             prev |-> last, pre |-> snapshot]
  /\ UNCHANGED << vimeo, other, now, pending, index, confirmed, used, issued,
                  crt, swp, confirmDone, last >>

\* the redis.get of confirmPendingUpload rejects: the call throws before it
\* has read or written anything
confirmPendingUpload_get_throw(token, video, snapshot) ==
  /\ cfm.pc = "idle"
  /\ ~MissingField(token, video)
  /\ token \in issued \cup {BogusToken}
  /\ video \in { VideoOf(t) : t \in issued }
  /\ cfm' = [IdleCfm EXCEPT !.pc = "done", !.token = token, !.video = video,
                            !.result = "store_error", !.pre = snapshot]
  /\ last' = NoCall
  /\ UNCHANGED << vimeo, other, now, pending, index, confirmed, used, issued,
                  crt, swp, confirmDone >>

\* a confirm that returns not found without writing the marker
confirmPendingUpload_notFound_unmarked ==
  /\ cfm.pc = "read"
  /\ cfm.rec = Null
  /\ cfm' = [cfm EXCEPT !.pc = "done", !.result = "pending_token_not_found"]
  /\ Returned(cfm, "pending_token_not_found")
  /\ UNCHANGED << vimeo, other, now, pending, index, confirmed, used, issued,
                  crt, swp >>

\* if (!rec) { redis.set(confirmedKey(video_id)); return not found }
confirmPendingUpload_notFound ==
  /\ cfm.pc = "read"
  /\ cfm.rec = Null
  /\ confirmed' = confirmed \cup {cfm.video}
  /\ cfm' = [cfm EXCEPT !.pc = "done", !.result = "pending_token_not_found"]
  /\ Returned(cfm, "pending_token_not_found")
  /\ UNCHANGED << vimeo, other, now, pending, index, used, issued, crt, swp >>

\* a confirm that removes the pending record and its index entry before it
\* compares the video ids
confirmPendingUpload_mismatch_deletes ==
  /\ cfm.pc = "read"
  /\ cfm.rec # Null
  /\ cfm.rec.video_id # cfm.video
  /\ pending' = redisDel(pending, cfm.token)
  /\ index' = redisZrem(index, cfm.token)
  /\ cfm' = [cfm EXCEPT !.pc = "done", !.result = "video_id_mismatch"]
  /\ Returned(cfm, "video_id_mismatch")
  /\ UNCHANGED << vimeo, other, now, confirmed, used, issued, crt, swp >>

\* if (rec.video_id !== args.video_id) return mismatch
confirmPendingUpload_mismatch ==
  /\ cfm.pc = "read"
  /\ cfm.rec # Null
  /\ cfm.rec.video_id # cfm.video
  /\ cfm' = [cfm EXCEPT !.pc = "done", !.result = "video_id_mismatch"]
  /\ Returned(cfm, "video_id_mismatch")
  /\ UNCHANGED << vimeo, other, now, pending, index, confirmed, used, issued,
                  crt, swp >>

\* await redis.set(confirmedKey(video_id), {confirmed_at}, {ex: 30d})
confirmPendingUpload_set ==
  /\ cfm.pc = "read"
  /\ cfm.rec # Null
  /\ cfm.rec.video_id = cfm.video
  /\ confirmed' = confirmed \cup {cfm.video}
  /\ cfm' = [cfm EXCEPT !.pc = "del"]
  /\ UNCHANGED << vimeo, other, now, pending, index, used, issued, crt, swp,
                  confirmDone, last >>

\* await redis.del(key)
confirmPendingUpload_del ==
  /\ cfm.pc = "del"
  /\ pending' = redisDel(pending, cfm.token)
  /\ cfm' = [cfm EXCEPT !.pc = "zrem"]
  /\ UNCHANGED << vimeo, other, now, index, confirmed, used, issued, crt, swp,
                  confirmDone, last >>

\* a confirm that returns ok without removing the token from the index
confirmPendingUpload_zrem_skipped ==
  /\ cfm.pc = "zrem"
  /\ cfm' = [cfm EXCEPT !.pc = "done", !.result = "ok"]
  /\ Returned(cfm, "ok")
  /\ UNCHANGED << vimeo, other, now, pending, index, confirmed, used, issued,
                  crt, swp >>

\* await redis.zrem(INDEX, token); return {ok: true}
confirmPendingUpload_zrem ==
  /\ cfm.pc = "zrem"
  /\ index' = redisZrem(index, cfm.token)
  /\ cfm' = [cfm EXCEPT !.pc = "done", !.result = "ok"]
  /\ Returned(cfm, "ok")
  /\ UNCHANGED << vimeo, other, now, pending, confirmed, used, issued, crt,
                  swp >>

\* the store call the request is about to make rejects (network, Redis):
\* the await throws, confirmPendingUpload stops where it is and the route,
\* which has no try/catch, answers 500
confirmPendingUpload_throw ==
  /\ \/ cfm.pc \in {"del", "zrem"}
     \/ cfm.pc = "read" /\ (cfm.rec = Null \/ cfm.rec.video_id = cfm.video)
  /\ cfm' = [cfm EXCEPT !.pc = "done", !.result = "store_error"]
  /\ last' = NoCall
  /\ UNCHANGED << vimeo, other, now, pending, index, confirmed, used, issued,
                  crt, swp, confirmDone >>

\* a route that catches what confirmPendingUpload throws and answers 200
confirmPOST_status_swallow(c) ==
  CASE c.pc # "done" -> 0
    [] c.result = "invalid" -> 400
    [] OTHER -> 200

\* the status of the response of confirm request c: 400 from the
\* validation, 200 with {ok: true, result} when confirmPendingUpload has
\* returned, and 500 when it has thrown (the route does not catch)
confirmPOST_status(c) ==
  CASE c.pc # "done" -> 0
    [] c.result = "invalid" -> 400
    [] c.result = "store_error" -> 500
    [] OTHER -> 200

\* the response of the confirm route reaches the client
confirmPOST_return ==
  /\ cfm.pc = "done"
  /\ cfm' = IdleCfm
  /\ UNCHANGED << vimeo, other, now, pending, index, confirmed, used, issued,
                  crt, swp, confirmDone, last >>

\* ------------------------------------------------------- cleanup request
\* a parameter of the query string: absent, empty (name=), a text that is
\* not a number, or a numeral
Absent == [kind |-> "absent", n |-> 0]
Empty == [kind |-> "empty", n |-> 0]
Text == [kind |-> "text", n |-> 0]
Numeral(n) == [kind |-> "num", n |-> n]

\* Number(url.searchParams.get(name) || dflt)
ParamNumber(param, dflt) ==
  IF param.kind \in {"absent", "empty"} THEN dflt
  ELSE IF param.kind = "text" THEN NaN
  ELSE param.n

\* the batch limit of a cleanup request that names none
DEFAULT_LIMIT == 25

\* a validation that lets zero through
Invalid_negative(hours, limit) ==
  hours = NaN \/ hours < 0 \/ limit = NaN \/ limit < 0

\* if (Number.isNaN(hours) || hours <= 0) return 400;
\* if (Number.isNaN(limit) || limit <= 0) return 400
Invalid(hours, limit) ==
  hours = NaN \/ hours <= 0 \/ limit = NaN \/ limit <= 0

\* POST of the cleanup route with a parameter that fails the validation:
\* NextResponse.json({error: "Invalid ... parameter"}, {status: 400})
POST_invalid(hoursParam, limitParam, snapshot) ==
  /\ swp.pc = "idle"
  /\ LET hours == ParamNumber(hoursParam, DEFAULT_HOURS)
         limit == ParamNumber(limitParam, DEFAULT_LIMIT)
     IN  /\ Invalid(hours, limit)
         /\ swp' = [IdleSwp EXCEPT !.pc = "invalid", !.hours = hours,
                                   !.limit = limit, !.retry = swp.retry,
                                   !.pre = snapshot]
  /\ last' = NoCall
  /\ UNCHANGED << vimeo, other, now, pending, index, confirmed, used, issued,
                  crt, cfm, confirmDone >>

\* POST of the cleanup route up to the first store operation of
\* listExpiredPending(cutoffISO, limit): hours and limit come from the query
\* string and pass the validation, cutoffMs = Date.now() - hours * 60 * 60 *
\* 1000, and the scan range-queries the index
listExpiredPending_zrange(hours, limit, snapshot) ==
  /\ swp.pc = "idle"
  /\ ~Invalid(hours, limit)
  /\ LET cutoffISO == toISOString(now - hours)
         cutoffMs  == DateParse(cutoffISO)
         max       == IF cutoffMs = NaN THEN now ELSE cutoffMs
         tokens    == redisZrange(index, 0, max, limit)
     IN  swp' = [IdleSwp EXCEPT
                   !.pc = IF tokens = << >> THEN "scanned" ELSE "get",
                   !.hours = hours,
                   !.cutoff = cutoffISO, !.limit = limit,
                   !.tokens = tokens, !.i = 1,
                   !.doneBefore = confirmDone,
                   !.retry = swp.retry,
                   !.pre = snapshot]
  /\ last' = NoCall
  /\ UNCHANGED << vimeo, other, now, pending, index, confirmed, used, issued,
                  crt, cfm, confirmDone >>

\* the end of one iteration of `for (const token of tokens)`
NextToken(s) ==
  [s EXCEPT !.i = s.i + 1,
            !.pc = IF s.i + 1 > Len(s.tokens) THEN "scanned" ELSE "get"]

\* const rec = await redis.get(pendingKey(token)); if (!rec?.video_id) ...
listExpiredPending_get ==
  /\ swp.pc = "get"
  /\ LET rec == redisGet(pending, swp.tokens[swp.i])
     IN  swp' = [swp EXCEPT !.rec = rec,
                            !.pc = IF rec.video_id = 0 THEN "orphan"
                                                       ELSE "marker"]
  /\ UNCHANGED << vimeo, other, now, pending, index, confirmed, used, issued,
                  crt, cfm, confirmDone, last >>

\* a scan that skips an orphan token without pruning it
listExpiredPending_orphan_kept ==
  /\ swp.pc = "orphan"
  /\ swp' = NextToken(swp)
  /\ UNCHANGED << vimeo, other, now, pending, index, confirmed, used, issued,
                  crt, cfm, confirmDone, last >>

\* await redis.zrem(INDEX, token); continue
listExpiredPending_orphan ==
  /\ swp.pc = "orphan"
  /\ index' = redisZrem(index, swp.tokens[swp.i])
  /\ swp' = NextToken(swp)
  /\ UNCHANGED << vimeo, other, now, pending, confirmed, used, issued, crt,
                  cfm, confirmDone, last >>

\* history: the scan reads the marker of video; markerSeen keeps the videos
\* whose marker was already written at that read
MarkerRead(s, video) ==
  [s EXCEPT !.markerSeen = IF video \in confirmed THEN @ \cup {video} ELSE @]

\* the scan without its confirmed check: every live record is pushed to out
listExpiredPending_marker_unchecked ==
  /\ swp.pc = "marker"
  /\ swp' = NextToken([MarkerRead(swp, swp.rec.video_id) EXCEPT
                         !.out = Append(@,
                           [pending_token |-> swp.tokens[swp.i],
                            video_id      |-> swp.rec.video_id,
                            created_at    |-> swp.rec.created_at])])
  /\ UNCHANGED << vimeo, other, now, pending, index, confirmed, used, issued,
                  crt, cfm, confirmDone, last >>

\* a scan that takes every record it returns out of the index
listExpiredPending_marker_prunes ==
  /\ swp.pc = "marker"
  /\ LET isMarked == swp.rec.video_id \in confirmed
         s == MarkerRead(swp, swp.rec.video_id)
     IN  /\ swp' = IF isMarked
                   THEN [s EXCEPT !.pc = "del"]
                   ELSE NextToken([s EXCEPT !.out = Append(@,
                           [pending_token |-> swp.tokens[swp.i],
                            video_id      |-> swp.rec.video_id,
                            created_at    |-> swp.rec.created_at])])
         /\ index' = IF isMarked THEN index
                     ELSE redisZrem(index, swp.tokens[swp.i])
  /\ UNCHANGED << vimeo, other, now, pending, confirmed, used, issued,
                  crt, cfm, confirmDone, last >>

\* const isConfirmed = await redis.get(confirmedKey(rec.video_id));
\* a confirmed record is resolved, any other one is pushed to out
listExpiredPending_marker ==
  /\ swp.pc = "marker"
  /\ LET isConfirmed == swp.rec.video_id \in confirmed
         s == MarkerRead(swp, swp.rec.video_id)
     IN  swp' = IF isConfirmed
                THEN [s EXCEPT !.pc = "del"]
                ELSE NextToken([s EXCEPT !.out = Append(@,
                        [pending_token |-> swp.tokens[swp.i],
                         video_id      |-> swp.rec.video_id,
                         created_at    |-> swp.rec.created_at])])
  /\ UNCHANGED << vimeo, other, now, pending, index, confirmed, used, issued,
                  crt, cfm, confirmDone, last >>

\* a scan that leaves the pending record of a confirmed video in place
listExpiredPending_del_skipped ==
  /\ swp.pc = "del"
  /\ swp' = [swp EXCEPT !.pc = "zrem"]
  /\ UNCHANGED << vimeo, other, now, pending, index, confirmed, used, issued,
                  crt, cfm, confirmDone, last >>

\* await redis.del(pendingKey(token))
listExpiredPending_del ==
  /\ swp.pc = "del"
  /\ pending' = redisDel(pending, swp.tokens[swp.i])
  /\ swp' = [swp EXCEPT !.pc = "zrem"]
  /\ UNCHANGED << vimeo, other, now, index, confirmed, used, issued, crt, cfm,
                  confirmDone, last >>

\* await redis.zrem(INDEX, token); continue
listExpiredPending_zrem ==
  /\ swp.pc = "zrem"
  /\ index' = redisZrem(index, swp.tokens[swp.i])
  /\ swp' = NextToken(swp)
  /\ UNCHANGED << vimeo, other, now, pending, confirmed, used, issued, crt,
                  cfm, confirmDone, last >>

\* a store call of listExpiredPending fails: the scan throws, no batch is
\* returned, and the catch of the route answers 500 {error}
listExpiredPending_throw ==
  /\ swp.pc \in {"get", "orphan", "marker", "del", "zrem"}
  /\ swp' = [swp EXCEPT !.pc = "error"]
  /\ UNCHANGED << vimeo, other, now, pending, index, confirmed, used, issued,
                  crt, cfm, confirmDone, last >>

\* where an iteration of `for (const rec of pending)` begins: at the remote
\* delete, or in the handler of the cron route at the confirmed check
ItemPc(s) == IF s.handler THEN "check" ELSE "vimeo"

\* listExpiredPending has returned out; `for (const rec of pending)` begins
POST_loop ==
  /\ swp.pc = "scanned"
  /\ swp' = [swp EXCEPT !.j = 1,
                        !.pc = IF swp.out = << >> THEN "done"
                                                  ELSE ItemPc(swp)]
  /\ UNCHANGED << vimeo, other, now, pending, index, confirmed, used, issued,
                  crt, cfm, confirmDone, last >>

\* the answers of the host to DELETE /videos/<id>: deleted, already gone,
\* and any failure
Statuses == {204, 404, 500}

\* what the host answers to a DELETE of video when it does not fail: 204 if
\* it held the video, 404 if the video was already gone
Answer(video) == IF video \in vimeo THEN 204 ELSE 404

\* a delete that throws on every answer that is not 2xx, 404 included
Throws_notFound(status) == ~(200 <= status /\ status <= 299)

\* if (!resp.ok && resp.status !== 404) throw new Error(...)
Throws(status) == ~(200 <= status /\ status <= 299) /\ status # 404

\* the loop abandons the batch at the first remote delete that throws
vimeoDeleteVideo_aborts(status) ==
  /\ swp.pc = "vimeo"
  /\ status = Answer(swp.out[swp.j].video_id) \/ Throws(status)
  /\ vimeo' = IF Throws(status) THEN vimeo
                                ELSE vimeo \ {swp.out[swp.j].video_id}
  /\ LET item == swp.out[swp.j]
     IN  swp' = [swp EXCEPT
                 !.pc = IF Throws(status) THEN "done" ELSE "markDel",
                 !.status = status,
                 !.deleted = IF Throws(status) THEN @ ELSE @ + 1,
                 !.failed = IF Throws(status) THEN @ \cup {item.pending_token}
                                              ELSE @,
                 !.remoteCalls = @ \cup {item.video_id}]
  /\ UNCHANGED << other, now, pending, index, confirmed, used, issued, crt,
                  cfm, confirmDone, last >>

\* try { await vimeoDeleteVideo(video_id); item.deleted_on_vimeo = true;
\* deletedCount++ } catch { item.deleted_on_vimeo = false }, and the route
\* goes on to mark the item deleted in the store in either case
vimeoDeleteVideo(status) ==
  /\ swp.pc = "vimeo"
  /\ status = Answer(swp.out[swp.j].video_id) \/ Throws(status)
  /\ vimeo' = IF Throws(status) THEN vimeo
                                ELSE vimeo \ {swp.out[swp.j].video_id}
  /\ LET item == swp.out[swp.j]
     IN  swp' = [swp EXCEPT
                 !.pc = "markDel",
                 !.status = status,
                 !.deleted = IF Throws(status) THEN @ ELSE @ + 1,
                 !.failed = IF Throws(status) THEN @ \cup {item.pending_token}
                                              ELSE @,
                 !.remoteCalls = @ \cup {item.video_id}]
  /\ UNCHANGED << other, now, pending, index, confirmed, used, issued, crt,
                  cfm, confirmDone, last >>

\* a markDeleted that leaves the pending record of the token in place
markDeleted_del_skipped ==
  /\ swp.pc = "markDel"
  /\ swp' = [swp EXCEPT !.pc = "markZrem"]
  /\ UNCHANGED << vimeo, other, now, pending, index, confirmed, used,
                  issued, crt, cfm, confirmDone, last >>

\* markDeleted: await redis.del(pendingKey(pending_token))
markDeleted_del ==
  /\ swp.pc = "markDel"
  /\ pending' = redisDel(pending, swp.out[swp.j].pending_token)
  /\ swp' = [swp EXCEPT !.pc = "markZrem"]
  /\ UNCHANGED << vimeo, other, now, index, confirmed, used, issued, crt, cfm,
                  confirmDone, last >>

\* a markDeleted that leaves the index entry of the token behind
markDeleted_zrem_skipped ==
  /\ swp.pc = "markZrem"
  /\ swp' = [swp EXCEPT !.j = swp.j + 1,
                        !.results = Append(@, swp.out[swp.j].pending_token),
                        !.pc = IF swp.j + 1 > Len(swp.out) THEN "done"
                                                           ELSE ItemPc(swp)]
  /\ UNCHANGED << vimeo, other, now, pending, index, confirmed, used, issued,
                  crt, cfm, confirmDone, last >>

\* markDeleted: await redis.zrem(INDEX, pending_token); results.push(item)
markDeleted_zrem ==
  /\ swp.pc = "markZrem"
  /\ index' = redisZrem(index, swp.out[swp.j].pending_token)
  /\ swp' = [swp EXCEPT !.j = swp.j + 1,
                        !.results = Append(@, swp.out[swp.j].pending_token),
                        !.pc = IF swp.j + 1 > Len(swp.out) THEN "done"
                                                           ELSE ItemPc(swp)]
  /\ UNCHANGED << vimeo, other, now, pending, confirmed, used, issued, crt,
                  cfm, confirmDone, last >>

\* a loop that drops from its results the item whose markDeleted failed
markDeleted_throw_dropped ==
  /\ swp.pc \in {"markDel", "markZrem"}
  /\ swp' = [swp EXCEPT !.j = swp.j + 1,
                        !.markErrors = @ \cup {swp.out[swp.j].pending_token},
                        !.pc = IF swp.j + 1 > Len(swp.out) THEN "done"
                                                           ELSE ItemPc(swp)]
  /\ UNCHANGED << vimeo, other, now, pending, index, confirmed, used, issued,
                  crt, cfm, confirmDone, last >>

\* a store call of markDeleted fails: markFn(token, deletedAt) rejects, the
\* .catch retries with markFn({pending_token, deleted_at}), whose keys are
\* not those of any record, and whatever that retry does the inner try/catch
\* ends the item (item.mark_error) and the loop goes on with the next one
markDeleted_throw ==
  /\ swp.pc \in {"markDel", "markZrem"}
  /\ swp' = [swp EXCEPT !.j = swp.j + 1,
                        !.markErrors = @ \cup {swp.out[swp.j].pending_token},
                        !.results = Append(@, swp.out[swp.j].pending_token),
                        !.pc = IF swp.j + 1 > Len(swp.out) THEN "done"
                                                           ELSE ItemPc(swp)]
  /\ UNCHANGED << vimeo, other, now, pending, index, confirmed, used, issued,
                  crt, cfm, confirmDone, last >>

\* history: the items of the results of request s whose remote delete
\* failed (deleted_on_vimeo: false), kept for the request that begins next
FailedItems(s) ==
  IF s.pre.calls
  THEN { s.out[k] : k \in { n \in 1..Len(s.out) :
                               s.out[n].pending_token \in s.failed } }
  ELSE {}

\* history: the tokens of the items of request s to the handler whose
\* video was deleted on the host and whose markDeleted failed, kept for the
\* request that begins next
Unretired(s) == IF s.handler THEN s.markErrors ELSE {}

\* NextResponse.json({ok: true, cutoffISO, found, deleted, results}), or
\* NextResponse.json({error}, {status: 500}) after a throw outside the loop,
\* or the 400 of the validation
POST_return ==
  /\ swp.pc \in {"done", "error", "invalid", "unauthorized"}
  /\ swp' = [IdleSwp EXCEPT !.retry = FailedItems(swp),
                            !.unretired = Unretired(swp)]
  /\ UNCHANGED << vimeo, other, now, pending, index, confirmed, used, issued,
                  crt, cfm, confirmDone, last >>

\* the status of the response of cleanup request s: 200 with the results
\* after the loop, 400 from the validation, 500 from the catch of the route
POST_status(s) ==
  CASE s.pc = "done" -> 200
    [] s.pc = "invalid" -> 400
    [] s.pc = "unauthorized" -> 401
    [] s.pc = "error" -> 500
    [] OTHER -> 0

\* ------------------------------------- cleanup request, the cron handler
\* the credential a cleanup request presents: none, one that is not the
\* configured secret, or the configured secret
Credentials == {"none", "wrong", "match"}

\* a check that lets every presented credential through
Authorized_present(secret, provided) == ~(secret /\ provided = "none")

\* if (secret && provided !== secret) return 401: with no secret configured
\* every request passes
Authorized(secret, provided) == ~(secret /\ provided # "match")

\* the request as it arrives, with the configuration it finds
Request(snapshot, secret, provided) ==
  [snapshot EXCEPT !.secret = secret, !.provided = provided]

\* POST of the cleanup route without the matching x-cleanup-secret:
\* NextResponse.json({error: "Unauthorized"}, {status: 401})
POST_unauthorized(secret, provided, snapshot) ==
  /\ swp.pc = "idle"
  /\ ~Authorized(secret, provided)
  /\ swp' = [IdleSwp EXCEPT !.pc = "unauthorized", !.retry = swp.retry,
                            !.pre = Request(snapshot, secret, provided)]
  /\ last' = NoCall
  /\ UNCHANGED << vimeo, other, now, pending, index, confirmed, used, issued,
                  crt, cfm, confirmDone >>

\* POST of the cleanup route with a credential that passes, up to the first
\* store operation of the scan
POST_authorized(secret, provided, hours, limit, snapshot) ==
  /\ Authorized(secret, provided)
  /\ listExpiredPending_zrange(hours, limit,
                               Request(snapshot, secret, provided))

\* the handler without the matching bearer token of the cron:
\* NextResponse.json({error: "Unauthorized"}, {status: 401})
handler_unauthorized(secret, token, snapshot) ==
  /\ swp.pc = "idle"
  /\ ~Authorized(secret, token)
  /\ swp' = [IdleSwp EXCEPT !.pc = "unauthorized", !.handler = TRUE,
                            !.retry = swp.retry,
                            !.pre = Request(snapshot, secret, token)]
  /\ last' = NoCall
  /\ UNCHANGED << vimeo, other, now, pending, index, confirmed, used, issued,
                  crt, cfm, confirmDone >>

\* the query string of a request to the handler
Query(minutesParam, hoursParam, limitParam) ==
  [minutes |-> minutesParam, hours |-> hoursParam, limit |-> limitParam]

\* Number(url.searchParams.get(name)) of a parameter that is there:
\* Number("") is 0
ToNumber(param) ==
  IF param.kind = "text" THEN NaN
  ELSE IF param.kind = "empty" THEN 0
  ELSE param.n

\* x * 60, where NaN * 60 is NaN
Times60(x) == IF x = NaN THEN NaN ELSE x * 60

\* a selection that prefers the hours parameter
SelectMinutes_hoursFirst(minutesParam, hoursParam) ==
  IF hoursParam.kind # "absent" THEN Times60(ToNumber(hoursParam))
  ELSE IF minutesParam.kind # "absent" THEN ToNumber(minutesParam)
  ELSE DEFAULT_HOURS * 60

\* if (minutesParam != null) minutes = Number(minutesParam);
\* else if (hoursParam != null) minutes = Number(hoursParam) * 60;
\* else minutes = DEFAULT_HOURS * 60
SelectMinutes(minutesParam, hoursParam) ==
  IF minutesParam.kind # "absent" THEN ToNumber(minutesParam)
  ELSE IF hoursParam.kind # "absent" THEN Times60(ToNumber(hoursParam))
  ELSE DEFAULT_HOURS * 60

\* the handler with a parameter that fails the validation:
\* NextResponse.json({error: "Invalid minutes/hours"}, {status: 400}), or
\* {error: "Invalid limit"}
handler_invalid(secret, token, query, snapshot) ==
  /\ swp.pc = "idle"
  /\ Authorized(secret, token)
  /\ LET minutes == SelectMinutes(query.minutes, query.hours)
         limit   == ParamNumber(query.limit, DEFAULT_LIMIT)
     IN  /\ Invalid(minutes, limit)
         /\ swp' = [IdleSwp EXCEPT
                      !.pc = "invalid", !.handler = TRUE,
                      !.query = [minutes |-> query.minutes,
                                 hours |-> query.hours],
                      !.minutes = minutes, !.limit = limit,
                      !.retry = swp.retry,
                      !.pre = Request(snapshot, secret, token)]
  /\ last' = NoCall
  /\ UNCHANGED << vimeo, other, now, pending, index, confirmed, used, issued,
                  crt, cfm, confirmDone >>

\* the handler up to the first store operation of
\* listExpiredPending(cutoffISO, limit): cutoffMs = Date.now() - minutes *
\* 60 * 1000, kept here in minutes (the clock counts hours, the scores of
\* the index are whole hours, so the range query up to cutoffMs selects what
\* the one up to the last whole hour before it selects)
handler_listExpiredPending(secret, token, query, snapshot) ==
  /\ swp.pc = "idle"
  /\ Authorized(secret, token)
  /\ LET minutes   == SelectMinutes(query.minutes, query.hours)
         limit     == ParamNumber(query.limit, DEFAULT_LIMIT)
         cutoffMin == now * 60 - minutes
         cutoffISO == toISOString(cutoffMin \div 60)
         cutoffMs  == DateParse(cutoffISO)
         max       == IF cutoffMs = NaN THEN now ELSE cutoffMs
         tokens    == redisZrange(index, 0, max, limit)
     IN  /\ ~Invalid(minutes, limit)
         /\ swp' = [IdleSwp EXCEPT
                      !.pc = IF tokens = << >> THEN "scanned" ELSE "get",
                      !.handler = TRUE,
                      !.query = [minutes |-> query.minutes,
                                 hours |-> query.hours],
                      !.minutes = minutes, !.cutoffMin = cutoffMin,
                      !.cutoff = cutoffISO, !.limit = limit,
                      !.tokens = tokens, !.i = 1,
                      !.doneBefore = confirmDone,
                      !.retry = swp.retry,
                      !.unretired = swp.unretired,
                      !.pre = Request(snapshot, secret, token)]
  /\ last' = NoCall
  /\ UNCHANGED << vimeo, other, now, pending, index, confirmed, used, issued,
                  crt, cfm, confirmDone >>

\* isConfirmed(video_id) of the store: whether the confirmed marker of the
\* video exists
isConfirmed(video) == video \in confirmed

\* the end of one iteration of `for (const rec of pending)`:
\* results.push(item)
NextItem(s) ==
  [s EXCEPT !.j = s.j + 1,
            !.results = Append(@, s.out[s.j].pending_token),
            !.pc = IF s.j + 1 > Len(s.out) THEN "done" ELSE ItemPc(s)]

\* try { if (await isConfirmed(video_id)) { item.skipped =
\* "already_confirmed"; results.push(item); continue } }
handler_isConfirmed ==
  /\ swp.pc = "check"
  /\ swp' = IF isConfirmed(swp.out[swp.j].video_id)
            THEN NextItem(swp)
            ELSE [swp EXCEPT !.pc = "remote"]
  /\ UNCHANGED << vimeo, other, now, pending, index, confirmed, used, issued,
                  crt, cfm, confirmDone, last >>

\* a confirmed check whose failure skips the item
handler_isConfirmed_throw_skips ==
  /\ swp.pc = "check"
  /\ swp' = NextItem([swp EXCEPT
                        !.checkErrors = @ \cup {swp.out[swp.j].pending_token}])
  /\ UNCHANGED << vimeo, other, now, pending, index, confirmed, used, issued,
                  crt, cfm, confirmDone, last >>

\* isConfirmed rejects: catch (err) { console.log(...) }, and the item goes
\* on to the remote delete
handler_isConfirmed_throw ==
  /\ swp.pc = "check"
  /\ swp' = [swp EXCEPT !.pc = "remote",
                        !.checkErrors = @ \cup {swp.out[swp.j].pending_token}]
  /\ UNCHANGED << vimeo, other, now, pending, index, confirmed, used, issued,
                  crt, cfm, confirmDone, last >>

\* a delete that takes the answer "already gone" for a failure
DeleteOk_strict(status) == status = 204

\* return {ok: resp.status === 204 || resp.status === 404, status, body}
DeleteOk(status) == status = 204 \/ status = 404

\* a handler that marks the item deleted whatever the host answered
handler_vimeoDeleteVideo_marks(status) ==
  /\ swp.pc = "remote"
  /\ status = Answer(swp.out[swp.j].video_id) \/ ~DeleteOk(status)
  /\ vimeo' = IF DeleteOk(status) THEN vimeo \ {swp.out[swp.j].video_id}
                                  ELSE vimeo
  /\ LET item == swp.out[swp.j]
     IN  swp' = [swp EXCEPT
                   !.pc = "markDel",
                   !.status = status,
                   !.deleted = IF DeleteOk(status) THEN @ + 1 ELSE @,
                   !.failed = IF DeleteOk(status) THEN @
                              ELSE @ \cup {item.pending_token},
                   !.remoteCalls = @ \cup {item.video_id}]
  /\ UNCHANGED << other, now, pending, index, confirmed, used, issued, crt,
                  cfm, confirmDone, last >>

\* const del = await vimeoDeleteVideo(video_id); if (del.ok) {
\* item.deleted_on_vimeo = true; deletedCount++; markDeleted(...) } else {
\* item.deleted_on_vimeo = false; item.mark_result = "skipped_..." }
handler_vimeoDeleteVideo(status) ==
  /\ swp.pc = "remote"
  /\ status = Answer(swp.out[swp.j].video_id) \/ ~DeleteOk(status)
  /\ vimeo' = IF DeleteOk(status) THEN vimeo \ {swp.out[swp.j].video_id}
                                  ELSE vimeo
  /\ LET item == swp.out[swp.j]
         s == [swp EXCEPT
                 !.status = status,
                 !.deleted = IF DeleteOk(status) THEN @ + 1 ELSE @,
                 !.failed = IF DeleteOk(status) THEN @
                            ELSE @ \cup {item.pending_token},
                 !.remoteCalls = @ \cup {item.video_id}]
     IN  swp' = IF DeleteOk(status) THEN [s EXCEPT !.pc = "markDel"]
                                    ELSE NextItem(s)
  /\ UNCHANGED << other, now, pending, index, confirmed, used, issued, crt,
                  cfm, confirmDone, last >>

\* ----------------------------------------------- the status-based store
\* the second store of uploadStore.ts keeps the record of a token under
\* pending:{token} for good, with a status, and the tokens by time in the
\* sorted set pending_by_time; the variables pending and index hold these
\* keys in the specification of this store

\* createPending: await redis.set(`pending:${token}`, record)
createPending_set(token) ==
  /\ crt.pc = "idle"
  /\ token \notin used
  /\ used' = used \cup {token}
  /\ vimeo' = vimeo \cup {VideoOf(token)}
  /\ pending' = redisSet(pending, token,
                         [video_id |-> VideoOf(token),
                          created_at |-> toISOString(now),
                          status |-> "pending"])
  /\ crt' = [IdleCrt EXCEPT !.pc = "by_time", !.token = token,
                            !.created_at = toISOString(now)]
  /\ UNCHANGED << other, now, index, confirmed, issued, cfm, swp,
                  confirmDone, last >>

\* createPending: await redis.zadd("pending_by_time", {score: ts, member})
createPending_zadd ==
  /\ crt.pc = "by_time"
  /\ index' = redisZadd(index, DateParse(crt.created_at), crt.token)
  /\ issued' = issued \cup {crt.token}
  /\ crt' = IdleCrt
  /\ UNCHANGED << vimeo, other, now, pending, confirmed, used, cfm, swp,
                  confirmDone, last >>

\* confirmByToken: const rec = await redis.get(key); if (!rec) return false;
\* if (rec.video_id !== video_id) return false
confirmByToken_get(token, video) ==
  /\ cfm.pc = "idle"
  /\ token \in issued \cup {BogusToken}
  /\ LET rec == redisGet(pending, token)
     IN  cfm' = [IdleCfm EXCEPT
                   !.token = token, !.video = video, !.rec = rec,
                   !.pc = IF rec = Null \/ rec.video_id # video
                          THEN "returned" ELSE "update",
                   !.result = IF rec = Null \/ rec.video_id # video
                              THEN "false" ELSE "none"]
  /\ UNCHANGED << vimeo, other, now, pending, index, confirmed, used, issued,
                  crt, swp, confirmDone, last >>

\* confirmByToken: await redis.set(key, {...rec, status: "confirmed",
\* confirmed_at})
confirmByToken_set ==
  /\ cfm.pc = "update"
  /\ pending' = redisSet(pending, cfm.token,
                         [cfm.rec EXCEPT !.status = "confirmed"])
  /\ cfm' = [cfm EXCEPT !.pc = "by_time"]
  /\ UNCHANGED << vimeo, other, now, index, confirmed, used, issued, crt,
                  swp, confirmDone, last >>

\* confirmByToken: await redis.zrem("pending_by_time", token); return true
confirmByToken_zrem ==
  /\ cfm.pc = "by_time"
  /\ index' = redisZrem(index, cfm.token)
  /\ cfm' = [cfm EXCEPT !.pc = "returned", !.result = "true"]
  /\ UNCHANGED << vimeo, other, now, pending, confirmed, used, issued, crt,
                  swp, confirmDone, last >>

\* confirmByToken has returned to its caller
confirmByToken_return ==
  /\ cfm.pc = "returned"
  /\ cfm' = IdleCfm
  /\ UNCHANGED << vimeo, other, now, pending, index, confirmed, used, issued,
                  crt, swp, confirmDone, last >>

\* redis.zrange("pending_by_time", "-inf", max, {byScore, offset: 0, count})
redisZrangeFromInf(idx, max, count) ==
  Take(ZSorted(idx, { t \in DOMAIN idx : idx[t] <= max }), count)

\* listExpiredPending of this store: the range query over pending_by_time
\* up to the cutoff its caller made from hours
listExpiredPending_byTime_zrange(hours, limit) ==
  /\ swp.pc = "idle"
  /\ LET cutoffISO == toISOString(now - hours)
         tokens    == redisZrangeFromInf(index, DateParse(cutoffISO), limit)
     IN  swp' = [IdleSwp EXCEPT
                   !.pc = IF tokens = << >> THEN "listed" ELSE "records",
                   !.hours = hours, !.cutoff = cutoffISO, !.limit = limit,
                   !.tokens = tokens, !.i = 1]
  /\ UNCHANGED << vimeo, other, now, pending, index, confirmed, used, issued,
                  crt, cfm, confirmDone, last >>

\* one redis.get of Promise.all(tokens.map((t) => redis.get(`pending:${t}`)))
\* and, after the last one, records.filter(Boolean)
listExpiredPending_byTime_get ==
  /\ swp.pc = "records"
  /\ LET rec == redisGet(pending, swp.tokens[swp.i])
     IN  swp' = [swp EXCEPT
                   !.out = IF rec = Null THEN @ ELSE Append(@, rec),
                   !.i = @ + 1,
                   !.pc = IF swp.i + 1 > Len(swp.tokens) THEN "listed"
                                                         ELSE "records"]
  /\ UNCHANGED << vimeo, other, now, pending, index, confirmed, used, issued,
                  crt, cfm, confirmDone, last >>

\* listExpiredPending has returned its records to the cleanup
listExpiredPending_byTime_return ==
  /\ swp.pc = "listed"
  /\ swp' = IdleSwp
  /\ UNCHANGED << vimeo, other, now, pending, index, confirmed, used, issued,
                  crt, cfm, confirmDone, last >>

\* two invocations of the cleanup route overlap: the one that is running
\* reaches an await and the other one resumes (or a new one may begin)
Yield ==
  /\ swp.pc # "idle" \/ other.pc # "idle"
  /\ swp' = other
  /\ other' = swp
  /\ UNCHANGED << vimeo, now, pending, index, confirmed, used, issued,
                  crt, cfm, confirmDone, last >>

\* --------------------------------------------------------- specifications
Begin(snapshot) ==
  \/ Tick
  \/ \E token \in Tokens : TTLExpire(token)
  \/ \E token \in Tokens : storePendingUpload_set(token, Created201, snapshot)
  \/ \E token \in Tokens \cup {BogusToken}, video \in Videos :
        confirmPendingUpload_get(token, video, snapshot)
  \/ \E hours \in 1..MaxHours, limit \in 1..MaxLimit :
        listExpiredPending_zrange(hours, limit, snapshot)

\* the store operations and returns of the requests in flight
Steps ==
  \/ storePendingUpload_zadd
  \/ createPOST_return
  \/ confirmPendingUpload_notFound
  \/ confirmPendingUpload_mismatch
  \/ confirmPendingUpload_set
  \/ confirmPendingUpload_del
  \/ confirmPendingUpload_zrem
  \/ confirmPOST_return
  \/ listExpiredPending_get
  \/ listExpiredPending_orphan
  \/ listExpiredPending_marker
  \/ listExpiredPending_del
  \/ listExpiredPending_zrem
  \/ POST_loop
  \/ \E status \in Statuses : vimeoDeleteVideo(status)
  \/ markDeleted_del
  \/ markDeleted_zrem
  \/ POST_return

\* a store call of a request in flight fails
Failures ==
  \/ confirmPendingUpload_throw
  \/ listExpiredPending_throw
  \/ markDeleted_throw

Continue == Steps \/ Failures

\* requests interleave between their store operations
Next == Begin(NoSnapshot) \/ Continue

Spec == Init /\ [][Next]_vars

\* one request at a time: a request, an expiry or a clock tick begins only
\* when no request is in flight; these requests record the store as they
\* find it (pre), which the claims about one call are stated with
NextSeq == (Quiet /\ Begin(Snapshot)) \/ Continue

SpecSeq == Init /\ [][NextSeq]_vars

\* one request at a time, and the confirm calls that have returned are
\* recorded too (confirmDone, doneBefore, last, prev), and so are the
\* items a cleanup request failed to delete on the host (retry): the claims
\* about a call that follows another are stated with these
NextCalls == (Quiet /\ Begin(CallHistory)) \/ Continue

SpecCalls == Init /\ [][NextCalls]_vars

\* two cleanup requests may overlap, nothing else runs while a cleanup
\* request is in flight and no store call fails: requests begin one at a
\* time as in SpecSeq, and a second cleanup request may begin while the
\* first one waits at an await
NextOverlap ==
  \/ Quiet /\ Begin(Snapshot)
  \/ /\ crt.pc = "idle" /\ cfm.pc = "idle" /\ other.pc # "idle"
     /\ \E hours \in 1..MaxHours, limit \in 1..MaxLimit :
           listExpiredPending_zrange(hours, limit, Snapshot)
  \/ Steps
  \/ Yield

SpecOverlap == Init /\ [][NextOverlap]_vars

\* one request at a time, with the clock in hours and the expiry of the
\* pending keys on time; the uploads are initiated in the first MaxTime
\* hours and the clock runs on for DEFAULT_HOURS more; a cleanup request
\* names its hours or takes the default
NextTTL ==
  \/ /\ Quiet
     /\ \/ TickTTL
        \/ now <= MaxTime /\ \E token \in Tokens :
              storePendingUpload_set(token, Created201, Snapshot)
        \/ \E token \in Tokens \cup {BogusToken}, video \in Videos :
              confirmPendingUpload_get(token, video, Snapshot)
        \/ \E hours \in (1..MaxHours) \cup {DEFAULT_HOURS},
              limit \in 1..MaxLimit :
                listExpiredPending_zrange(hours, limit, Snapshot)
  \/ Continue

SpecTTL == Init /\ [][NextTTL]_vars

\* one request at a time as in SpecSeq, and the calls of the create route
\* may fail too: the host may refuse the placeholder and either store call
\* of storePendingUpload may reject
NextCreate ==
  \/ /\ Quiet
     /\ \/ Begin(Snapshot)
        \/ \E token \in Tokens, reply \in HostReplies :
              storePendingUpload_set(token, reply, Snapshot)
        \/ \E reply \in HostReplies :
              vimeoCreateTusUpload_throw(reply, Snapshot)
        \/ \E token \in Tokens : storePendingUpload_set_throw(token, Snapshot)
  \/ Continue
  \/ storePendingUpload_zadd_throw

SpecCreate == Init /\ [][NextCreate]_vars

\* the values of the hours and of the limit parameter of a cleanup request
HoursParams == {Absent, Text} \cup { Numeral(n) : n \in (-1)..MaxHours }
LimitParams == {Absent, Text} \cup { Numeral(n) : n \in (-1)..MaxLimit }

\* one request at a time as in SpecSeq, with the requests as they come in
\* over HTTP: a confirm request may lack a field of its body, a cleanup
\* request takes its hours and its limit from the query string, where
\* either may be absent, not a number, zero or negative
NextSurface ==
  \/ /\ Quiet
     /\ \/ Begin(Snapshot)
        \/ \E token \in Tokens \cup {BogusToken, Missing},
              video \in Videos \cup {Missing} :
                \/ confirmPOST_invalid(token, video, Snapshot)
                \/ confirmPendingUpload_get(token, video, Snapshot)
                \/ confirmPendingUpload_get_throw(token, video, Snapshot)
        \/ \E hoursParam \in HoursParams, limitParam \in LimitParams :
              \/ POST_invalid(hoursParam, limitParam, Snapshot)
              \/ listExpiredPending_zrange(
                    ParamNumber(hoursParam, DEFAULT_HOURS),
                    ParamNumber(limitParam, DEFAULT_LIMIT), Snapshot)
  \/ Continue

SpecSurface == Init /\ [][NextSurface]_vars

\* the values of the minutes parameter of a request to the handler
MaxMinutes == 2
MinutesParams == {Absent, Empty, Text}
                   \cup { Numeral(n) : n \in 0..MaxMinutes }

\* the steps of the handler between the scan and markDeleted
HandlerSteps ==
  \/ handler_isConfirmed
  \/ handler_isConfirmed_throw
  \/ \E status \in Statuses : handler_vimeoDeleteVideo(status)

\* one request at a time as in SpecSeq, where a cleanup request is served
\* by the cleanup route or by the handler of the cron route, a secret may
\* be configured, and the request presents a credential or none
NextCron ==
  \/ /\ Quiet
     /\ \/ Begin(Snapshot)
        \/ \E secret \in BOOLEAN, provided \in Credentials :
              \/ POST_unauthorized(secret, provided, Snapshot)
              \/ handler_unauthorized(secret, provided, Snapshot)
              \/ \E hours \in 1..MaxHours, limit \in 1..MaxLimit :
                    POST_authorized(secret, provided, hours, limit, Snapshot)
              \/ \E minutesParam \in MinutesParams, hoursParam \in HoursParams,
                    limitParam \in LimitParams :
                    \/ handler_invalid(secret, provided,
                          Query(minutesParam, hoursParam, limitParam),
                          Snapshot)
                    \/ handler_listExpiredPending(secret, provided,
                          Query(minutesParam, hoursParam, limitParam),
                          Snapshot)
  \/ Continue
  \/ HandlerSteps

SpecCron == Init /\ [][NextCron]_vars

\* the videos whose remote delete the host refuses on every attempt
Refused == {VideoOf(1)}

\* the cron calls the handler again and again with hours=1 and limit=1,
\* uploads are initiated in between and never confirmed, no store call
\* fails, and the host refuses to delete the videos of Refused and deletes
\* every other one
CronSweep ==
  Quiet /\ handler_listExpiredPending(FALSE, "none",
                                      Query(Absent, Numeral(1), Numeral(1)),
                                      Snapshot)

CronSteps ==
  \/ storePendingUpload_zadd
  \/ createPOST_return
  \/ listExpiredPending_get
  \/ listExpiredPending_marker
  \/ POST_loop
  \/ handler_isConfirmed
  \/ \E status \in Statuses :
        /\ swp.pc = "remote"
        /\ (~DeleteOk(status)) <=> (swp.out[swp.j].video_id \in Refused)
        /\ handler_vimeoDeleteVideo(status)
  \/ markDeleted_del
  \/ markDeleted_zrem
  \/ POST_return

NextStarve ==
  \/ /\ Quiet
     /\ \/ Tick
        \/ \E token \in Tokens :
              storePendingUpload_set(token, Created201, Snapshot)
  \/ CronSweep
  \/ CronSteps

\* every request in flight goes on to its end, and the cron keeps calling
SpecStarve ==
  Init /\ [][NextStarve]_vars /\ WF_vars(CronSteps) /\ WF_vars(CronSweep)

\* the status-based store under every interleaving of its calls: uploads
\* are registered, confirmed and listed by requests that run side by side
NextStatus ==
  \/ Tick
  \/ \E token \in Tokens : createPending_set(token)
  \/ createPending_zadd
  \/ \E token \in Tokens \cup {BogusToken}, video \in Videos :
        confirmByToken_get(token, video)
  \/ confirmByToken_set
  \/ confirmByToken_zrem
  \/ confirmByToken_return
  \/ \E hours \in 1..MaxHours, limit \in 1..MaxLimit :
        listExpiredPending_byTime_zrange(hours, limit)
  \/ listExpiredPending_byTime_get
  \/ listExpiredPending_byTime_return

SpecStatus == Init /\ [][NextStatus]_vars

\* ------------------------------------------------------------ vocabulary
\* the tokens of the records a scan has returned so far
OutTokens(s) == { s.out[k].pending_token : k \in 1..Len(s.out) }

\* token t is within the range a scan with this cutoff and limit reads from
\* the index idx: its score is at most the cutoff and fewer than limit
\* entries of that range come before it
Covered(idx, t, cutoffMs, limit) ==
  /\ t \in DOMAIN idx
  /\ 0 <= idx[t] /\ idx[t] <= cutoffMs
  /\ Cardinality({ u \in DOMAIN idx :
                     /\ 0 <= idx[u] /\ idx[u] <= cutoffMs
                     /\ \/ idx[u] < idx[t]
                        \/ idx[u] = idx[t] /\ u < t }) < limit

\* the scan of the cleanup request has just returned, and it ran alone
Scanned == swp.pc = "scanned" /\ swp.pre.on

\* the confirm call has just come to its end, and it ran alone
Confirmed == cfm.pc = "done" /\ cfm.pre.on

\* the record the confirm call found under its token when it began
Stored == redisGet(cfm.pre.pending, cfm.token)

\* ------------------------------------------------------------------- C1
\* C1: if a call confirm(token, mediaId) has returned before a cleanup
\* request invokes listExpiredPending, that request never calls
\* vimeoDeleteVideo for mediaId.
C1_RaceSafety == swp.remoteCalls \cap swp.doneBefore = {}

\* ------------------------------------------------------------------- C2
\* C2: under every interleaving of the store operations of confirm and
\* cleanup requests, a video whose confirmed marker was already written when
\* the scan read the marker is not deleted on the host by that request.
C2_MarkerBeforeRead == swp.remoteCalls \cap swp.markerSeen = {}

\* a cleanup request has passed over a video whose confirm request, still in
\* flight, had written its marker, and has deleted another video on the host
C2_Witness ==
  /\ swp.pc = "done"
  /\ swp.markerSeen # {}
  /\ swp.remoteCalls # {}
  /\ cfm.pc \in {"del", "zrem"}
  /\ cfm.video \in swp.markerSeen

\* ------------------------------------------------------------------- C3
\* C3: whenever confirm returns ok, pending_token_not_found or
\* video_id_mismatch, the confirmed marker of the supplied video id exists.
C3_AlwaysMarker ==
  (cfm.pc = "done" /\ cfm.result # "store_error") => cfm.video \in confirmed

\* ------------------------------------------------------------------- C4
\* C4: confirm with a video id that differs from the one of the stored
\* record returns video_id_mismatch and deletes nothing: the pending record
\* of the token and its index entry are still there, and no other record or
\* index entry has changed.
C4_MismatchRejected ==
  (Confirmed /\ Stored # Null /\ Stored.video_id # cfm.video) =>
     /\ cfm.result = "video_id_mismatch"
     /\ pending = cfm.pre.pending
     /\ index = cfm.pre.index
     /\ cfm.token \in DOMAIN pending
     /\ cfm.token \in DOMAIN index

C4_Witness ==
  /\ Confirmed
  /\ cfm.result = "video_id_mismatch"
  /\ cfm.token \in DOMAIN pending
  /\ cfm.token \in DOMAIN index

\* ------------------------------------------------------------------- C5
\* C5: a confirm call that directly follows a confirm call with the same
\* arguments that returned ok returns ok as well, and the marker exists.
C5_Idempotent ==
  (Confirmed /\ cfm.result # "store_error"
             /\ cfm.prev = [token |-> cfm.token, video |-> cfm.video,
                            result |-> "ok"]) =>
     /\ cfm.result = "ok"
     /\ cfm.video \in confirmed

\* ------------------------------------------------------------------- C6
\* C6: when the record of the token exists and its video id equals the
\* supplied one, confirm returns ok and on return the record is deleted,
\* the token is out of the index and the marker of the video exists.
C6_SuccessPath ==
  (Confirmed /\ cfm.result # "store_error"
             /\ Stored # Null /\ Stored.video_id = cfm.video) =>
     /\ cfm.result = "ok"
     /\ cfm.token \notin DOMAIN pending
     /\ cfm.token \notin DOMAIN index
     /\ cfm.video \in confirmed

C6_Witness ==
  /\ Confirmed
  /\ cfm.result = "ok"
  /\ cfm.token \in DOMAIN cfm.pre.pending
  /\ cfm.token \in DOMAIN cfm.pre.index
  /\ cfm.video \notin cfm.pre.confirmed

\* ------------------------------------------------------------------- C7
\* C7: when no record exists for the token, confirm returns
\* pending_token_not_found, the marker of the supplied video id is written
\* all the same, and no pending record or index entry of any token changes.
C7_NotFound ==
  (Confirmed /\ cfm.result # "store_error" /\ Stored = Null) =>
     /\ cfm.result = "pending_token_not_found"
     /\ cfm.video \in confirmed
     /\ pending = cfm.pre.pending
     /\ index = cfm.pre.index

C7_Witness ==
  /\ Confirmed
  /\ cfm.result = "pending_token_not_found"
  /\ cfm.video \notin cfm.pre.confirmed
  /\ cfm.video \in confirmed
  /\ pending # << >>
  /\ index # << >>

\* ------------------------------------------------------------------- C8
\* the record of token t was live and unconfirmed when the scan began, and
\* its created_at is at most the cutoff of the scan
StaleUnresolved(t) ==
  /\ t \in DOMAIN swp.pre.pending
  /\ DateParse(swp.pre.pending[t].created_at) <= DateParse(swp.cutoff)
  /\ swp.pre.pending[t].video_id \notin swp.pre.confirmed

\* C8 as stated: a record created by create(token, m, t0) is returned by
\* scanExpired(cutoff, limit) if and only if t0 <= cutoff and it has been
\* neither confirmed nor retired.
C8_RoundTrip ==
  Scanned => \A t \in Tokens : t \in OutTokens(swp) <=> StaleUnresolved(t)

\* C8 as amended: ... if and only if t0 <= cutoff, it has been neither
\* confirmed nor retired (nor dropped by its TTL), and its index entry is
\* among the first limit entries of the index with a score <= cutoff.
C8_RoundTripWithinLimit ==
  Scanned =>
    \A t \in Tokens :
      t \in OutTokens(swp) <=>
        /\ StaleUnresolved(t)
        /\ Covered(swp.pre.index, t, DateParse(swp.cutoff), swp.limit)

\* a scan has returned one stale record and left another one to the limit
C8_Witness ==
  /\ Scanned
  /\ \E t, u \in Tokens :
       /\ StaleUnresolved(t) /\ t \in OutTokens(swp)
       /\ StaleUnresolved(u) /\ u \notin OutTokens(swp)

\* ------------------------------------------------------------------- C9
\* the tokens that were in the index without a pending record when the scan
\* began
Orphans == (DOMAIN swp.pre.index) \ (DOMAIN swp.pre.pending)

\* C9 as stated: if a pending record is removed out-of-band while its token
\* remains in the index, the next scanExpired call removes the token from
\* the index and does not include it in its result.
C9_OrphanHealed ==
  Scanned => \A t \in Orphans : t \notin DOMAIN index /\ t \notin OutTokens(swp)

\* C9 as amended: ... the next scanExpired call whose range reaches the
\* token (its score is <= cutoff and it is among the first limit entries of
\* that range) removes the token from the index; no scanExpired call
\* includes it in its result.
C9_OrphanHealedInRange ==
  Scanned =>
    \A t \in Orphans :
      /\ t \notin OutTokens(swp)
      /\ Covered(swp.pre.index, t, DateParse(swp.cutoff), swp.limit)
            => t \notin DOMAIN index

\* a scan has pruned an orphan of its range
C9_Witness ==
  /\ Scanned
  /\ \E t \in Orphans :
       /\ Covered(swp.pre.index, t, DateParse(swp.cutoff), swp.limit)
       /\ t \notin DOMAIN index

\* ------------------------------------------------------------------ C10
\* token t was within the range of the scan, with a live record whose video
\* already had its confirmed marker when the scan began
ScannedConfirmed(t) ==
  /\ Covered(swp.pre.index, t, DateParse(swp.cutoff), swp.limit)
  /\ t \in DOMAIN swp.pre.pending
  /\ swp.pre.pending[t].video_id \in swp.pre.confirmed

\* C10: for every scanned token whose record's video has a live confirmed
\* marker (the state a confirm leaves that stopped after its marker write
\* included), scanExpired deletes the pending record, removes the index
\* entry and leaves the token out of its result.
C10_ResolvesConfirmed ==
  Scanned =>
    \A t \in Tokens :
      ScannedConfirmed(t) =>
        /\ t \notin DOMAIN pending
        /\ t \notin DOMAIN index
        /\ t \notin OutTokens(swp)

\* a scan has resolved the record that a confirm call, stopped by a store
\* error after its marker write, had left behind
C10_Witness ==
  /\ Scanned
  /\ \E t \in Tokens : ScannedConfirmed(t) /\ t \notin DOMAIN pending

\* ------------------------------------------------------------------ C11
\* the cleanup request ran alone and no store call of markDeleted failed
SweepAlone == swp.pre.on /\ swp.markErrors = {}

\* the items of the batch whose processing by the loop is over
Processed == { swp.out[k].pending_token :
                 k \in 1..(IF swp.pc = "done" THEN Len(swp.out) ELSE swp.j - 1) }

\* C11: an item whose remote delete failed in this sweep is not retired: its
\* pending record and its index entry are what they were when the sweep began.
C11_RetireOnlyOnSuccess ==
  (SweepAlone /\ swp.pc \in {"vimeo", "done"}) =>
     \A t \in Processed \cap swp.failed :
        /\ t \in DOMAIN pending /\ pending[t] = swp.pre.pending[t]
        /\ t \in DOMAIN index /\ index[t] = swp.pre.index[t]

\* ------------------------------------------------------------------ C12
\* C12: at the end of a sweep in which the remote delete failed for some
\* items of the batch only, deleted is the number of items whose remote
\* delete succeeded, exactly those items are retired, and every failing item
\* is still in the store.
C12_PartialFailure ==
  (SweepAlone /\ swp.pc = "done"
     /\ swp.failed # {} /\ swp.failed # OutTokens(swp)) =>
     /\ swp.deleted = Len(swp.out) - Cardinality(swp.failed)
     /\ \A t \in OutTokens(swp) :
          IF t \in swp.failed
          THEN t \in DOMAIN pending /\ t \in DOMAIN index
          ELSE t \notin DOMAIN pending /\ t \notin DOMAIN index

RangeOf(s, idx) ==
  LET tokens == redisZrange(idx, 0, DateParse(s.cutoff), s.limit)
  IN  { tokens[k] : k \in 1..Len(tokens) }

\* the store after a cleanup request with the cutoff and limit of s has run
\* alone on store st, no call failing: every token of its range has been
\* pruned, resolved or retired
After(st, s) ==
  LET R == RangeOf(s, st.index)
  IN  [pending |-> [t \in DOMAIN st.pending \ R |-> st.pending[t]],
       index   |-> [t \in DOMAIN st.index \ R |-> st.index[t]]]

\* two overlapping cleanup requests have both come to the end of their loop,
\* swp having begun first and other while swp was in flight, no store call
\* has failed, and no third cleanup request has come between the two: what
\* swp leaves alone was still in the store when other began
BothDone ==
  /\ swp.pc = "done" /\ other.pc = "done"
  /\ swp.pre.on /\ swp.pre.alone
  /\ other.pre.on /\ ~other.pre.alone
  /\ swp.markErrors = {} /\ other.markErrors = {}
  /\ DOMAIN After(swp.pre, swp).pending \subseteq DOMAIN other.pre.pending
  /\ DOMAIN After(swp.pre, swp).index \subseteq DOMAIN other.pre.index

WholeRange(s, idx) ==
  Cardinality({ t \in DOMAIN idx :
                  0 <= idx[t] /\ idx[t] <= DateParse(s.cutoff) }) <= s.limit

Tracked(t) == t \in DOMAIN pending /\ t \in DOMAIN index

\* C15: an upload that was registered and has not been confirmed is either
\* still tracked, so that a later sweep reclaims it, or its video has been
\* deleted on the host: it is never dropped from tracking with its video
\* left on the host.
C15_NeverLost ==
  Quiet =>
    \A t \in issued :
       (VideoOf(t) \notin confirmed /\ VideoOf(t) \in vimeo) => Tracked(t)

\* ------------------------------------------------------------------ C16
\* C16: an unconfirmed record is still live at the moment it becomes
\* eligible for a scan with the default staleness threshold: the TTL set at
\* create outlives that threshold.
C16_LiveWhenEligible ==
  Quiet =>
    \A t \in DOMAIN index :
       (VideoOf(t) \notin confirmed /\ index[t] + DEFAULT_HOURS = now)
          => t \in DOMAIN pending

\* ------------------------------------------------------------------ C17
\* C17: a record whose remote delete failed in the sweep before this one is
\* returned again by this sweep's scan, when this scan's cutoff reaches its
\* created_at, its range was not cut short by the limit and the record has
\* not been confirmed.
C17_RetryByRescan ==
  Scanned =>
    \A r \in swp.retry :
       (/\ r.video_id \notin confirmed
        /\ DateParse(r.created_at) <= DateParse(swp.cutoff)
        /\ Len(swp.tokens) < swp.limit)
          => \E k \in 1..Len(swp.out) : swp.out[k] = r

\* ------------------------------------------------------------------ C18
\* the running cleanup request takes the first (del) or the second (zrem)
\* store operation of markDeleted for the item it is at
RetireDel ==
  swp.pc = "markDel" /\ swp'.pc = "markZrem" /\ other' = other

RetireZrem ==
  /\ swp.pc = "markZrem" /\ swp'.j = swp.j + 1 /\ other' = other
  /\ swp'.markErrors = swp.markErrors

\* C18: markDeleted(token) leaves neither the pending record nor the index
\* entry of token, touches nothing else, and on a token that is already
\* retired it leaves the store as it is.
C18_RetireIdempotent ==
  [][LET t == swp.out[swp.j].pending_token
     IN  /\ RetireDel =>
              /\ DOMAIN pending' = DOMAIN pending \ {t}
              /\ \A u \in DOMAIN pending' : pending'[u] = pending[u]
              /\ index' = index /\ confirmed' = confirmed
         /\ RetireZrem =>
              /\ DOMAIN index' = DOMAIN index \ {t}
              /\ \A u \in DOMAIN index' : index'[u] = index[u]
              /\ t \notin DOMAIN pending'
              /\ pending' = pending /\ confirmed' = confirmed]_vars

\* two overlapping sweeps have both retired the same token: the second
\* markDeleted of that token found it already retired
C18_Witness ==
  /\ swp.pc = "done" /\ other.pc = "done"
  /\ OutTokens(swp) \cap OutTokens(other) # {}
  /\ swp.markErrors = {} /\ other.markErrors = {}

\* ------------------------------------------------------------------ C19
\* the tokens whose record was live, indexed and unconfirmed when the
\* cleanup request began
LiveUnconfirmed(s) ==
  { t \in DOMAIN s.pre.pending \cap DOMAIN s.pre.index :
      s.pre.pending[t].video_id \notin s.pre.confirmed }

\* C19: the records a scan returns are in non-decreasing created_at order,
\* and with every record it returns it returns every live, indexed,
\* unconfirmed record that is older.
C19_ScanOrdering ==
  Scanned =>
    /\ \A k \in 1..(Len(swp.out) - 1) :
          DateParse(swp.out[k].created_at)
             <= DateParse(swp.out[k + 1].created_at)
    /\ \A k \in 1..Len(swp.out) :
          \A t \in LiveUnconfirmed(swp) :
             DateParse(swp.pre.pending[t].created_at)
                < DateParse(swp.out[k].created_at)
             => t \in OutTokens(swp)

\* a scan with limit 1 has returned the older of two stale unconfirmed
\* records and left the newer one for a later sweep
C19_Witness ==
  /\ Scanned
  /\ swp.limit = 1 /\ Len(swp.out) = 1
  /\ \E t \in LiveUnconfirmed(swp) :
        /\ DateParse(swp.pre.pending[t].created_at)
              > DateParse(swp.out[1].created_at)
        /\ DateParse(swp.pre.pending[t].created_at) <= DateParse(swp.cutoff)

\* ------------------------------------------------------------------ C20
\* the host has answered 404 (already gone) for the item the loop has just
\* finished, and no store call of markDeleted failed for it
GoneItemDone ==
  /\ swp.pre.on
  /\ swp.pc \in {"vimeo", "done"} /\ swp.j >= 2
  /\ swp.status = 404
  /\ swp.out[swp.j - 1].pending_token \notin swp.markErrors

\* C20: an item for which the host answers 404 is handled as a successful
\* delete: it is not recorded as failed, it is counted in deleted, and its
\* pending record and index entry are retired.
C20_GoneIsSuccess ==
  /\ (swp.pre.on /\ swp.pc = "markDel" /\ swp.status = 404) =>
        /\ swp.out[swp.j].pending_token \notin swp.failed
        /\ swp.deleted = swp.j - Cardinality(swp.failed)
  /\ GoneItemDone =>
        LET t == swp.out[swp.j - 1].pending_token
        IN  /\ t \notin swp.failed
            /\ swp.deleted = (swp.j - 1) - Cardinality(swp.failed)
            /\ t \notin DOMAIN pending /\ t \notin DOMAIN index

\* a sweep is over whose last item was already gone from the host: an
\* earlier sweep had deleted the video but failed to retire the record
C20_Witness ==
  /\ GoneItemDone
  /\ swp.pc = "done"
  /\ swp.deleted >= 1
  /\ swp.out[swp.j - 1].video_id \in swp.remoteCalls

\* ------------------------------------------------------------------ C21
\* the tokens the range query of the scan of request s has read
ScanTokens(s) == { s.tokens[k] : k \in 1..Len(s.tokens) }

\* a confirm call with the token of an upload and the video id registered
\* with it, and a sweep whose range query has read that token, have both
\* come to their end, no store call of either having been rejected
RaceOver ==
  /\ cfm.pc = "done" /\ cfm.result # "store_error"
  /\ cfm.token \in Tokens /\ cfm.video = VideoOf(cfm.token)
  /\ swp.pc = "done" /\ swp.markErrors = {}
  /\ cfm.token \in ScanTokens(swp)

\* C21: however the store operations of a matching confirm and of a sweep
\* that covers its token interleave, when both are over the token has no
\* pending record and no index entry, the marker of the video exists, and
\* the confirm has returned ok or pending_token_not_found, not an error.
C21_RaceConverges ==
  RaceOver =>
     /\ cfm.token \notin DOMAIN pending
     /\ cfm.token \notin DOMAIN index
     /\ cfm.video \in confirmed
     /\ cfm.result \in {"ok", "pending_token_not_found"}

\* the two have truly raced: the confirm found the record and returned ok,
\* and the sweep, which had read the marker before the confirm wrote it,
\* has deleted the video on the host and retired the same token
C21_Witness ==
  /\ RaceOver
  /\ cfm.result = "ok"
  /\ cfm.token \in OutTokens(swp)
  /\ cfm.video \in swp.remoteCalls

\* ------------------------------------------------------------------ C22
\* the loop of the running cleanup request is at an item, about to call
\* vimeoDeleteVideo for it, and the marker of the item's video exists
MarkedAtItem ==
  swp.pc = "vimeo" /\ swp.out[swp.j].video_id \in confirmed

\* C22: when the marker of an item's video exists as the loop comes to the
\* item, the cleanup request issues no remote delete for it: the video stays
\* on the host and the item is not counted in deleted.
C22_RecheckBeforeDelete ==
  [][(MarkedAtItem /\ swp' # swp) =>
        /\ swp'.remoteCalls = swp.remoteCalls
        /\ swp'.deleted = swp.deleted
        /\ vimeo' = vimeo]_vars

\* ------------------------------------------------------------------ C23
\* the create request has its response, and it ran alone
Created == crt.pc = "done" /\ crt.pre.on

\* C23: when vimeoCreateTusUpload throws, the create route answers with an
\* error status, no pending token has been generated, and the pending
\* records and the index are what they were when the request began.
C23_RemoteCreateFails ==
  (Created /\ crt.err = "vimeo") =>
     /\ ~(200 <= crt.status /\ crt.status <= 299)
     /\ crt.token \notin Tokens
     /\ pending = crt.pre.pending
     /\ index = crt.pre.index

\* the host has refused a placeholder while the store held the record and
\* the index entry of an earlier upload
C23_Witness ==
  /\ Created /\ crt.err = "vimeo"
  /\ pending # << >> /\ index # << >>
  /\ used # Tokens

\* ------------------------------------------------------------------ C24
\* C24: when the host has created the placeholder and a store call of
\* storePendingUpload is rejected, the create route still answers with a
\* success status.
C24_RegistrationFailureTolerated ==
  (Created /\ crt.err \in {"set", "zadd"}) =>
     200 <= crt.status /\ crt.status <= 299

\* ------------------------------------------------------------------ C25
\* the tokens of the create requests that a rejected store call has ended
\* (the response was the 500 one, the token was never sent to a client)
FailedCreates ==
  { t \in used \ issued :
      ~(crt.pc # "idle" /\ crt.token = t /\ crt.err = "none") }

\* C25: storePendingUpload writes the pending record before the index
\* entry: while it is between the two the record is there and the index
\* entry is not, a rejected index write leaves the record without an index
\* entry, a token whose create was ended by a rejected store call is never
\* in the index, and no scan reads or returns it.
C25_RecordBeforeIndex ==
  /\ (crt.pc = "zadd" /\ crt.pre.on) =>
        crt.token \in DOMAIN pending /\ crt.token \notin DOMAIN index
  /\ (Created /\ crt.err = "zadd") =>
        crt.token \in DOMAIN pending /\ crt.token \notin DOMAIN index
  /\ \A t \in FailedCreates :
        /\ t \notin DOMAIN index
        /\ t \notin ScanTokens(swp)
        /\ t \notin OutTokens(swp)

\* a scan has come to its end while the record of a create whose index
\* write was rejected was live, unconfirmed and older than the cutoff
C25_Witness ==
  /\ Scanned
  /\ \E t \in FailedCreates :
        /\ StaleUnresolved(t)
        /\ t \in DOMAIN pending
        /\ t \notin OutTokens(swp)

\* ------------------------------------------------------------------ C26
\* C26 (as stated): when no request is in flight, every live pending record
\* written by storePendingUpload has its token in the index.
C26_RecordIndexed ==
  Quiet => \A t \in DOMAIN pending : t \in DOMAIN index

\* C26 (amended): when no request is in flight, every live pending record
\* of a create request that returned without a store failure (both store
\* calls of storePendingUpload went through) has its token in the index.
C26_CompletedRecordIndexed ==
  Quiet => \A t \in DOMAIN pending \cap issued : t \in DOMAIN index

\* no request is in flight, the record of a completed create is live with
\* its index entry, and next to it the record of a create whose index write
\* was rejected is live without one
C26_Witness ==
  /\ Quiet
  /\ \E t \in DOMAIN pending \cap issued : t \in DOMAIN index
  /\ \E t \in DOMAIN pending \ issued : t \notin DOMAIN index

\* ------------------------------------------------------------------ C27
\* x, the number made of a query parameter, is not a positive number
NotPositive(x) == x = NaN \/ x <= 0

\* C27: a cleanup request whose hours or whose limit is not a positive
\* number is answered 400, and it has read no index range, returned no
\* record, called no remote delete and written nothing to the store.
C27_ParamsValidated ==
  (swp.pre.on /\ swp.pc # "idle"
     /\ (NotPositive(swp.hours) \/ NotPositive(swp.limit))) =>
        /\ POST_status(swp) = 400
        /\ swp.tokens = << >> /\ swp.out = << >>
        /\ swp.remoteCalls = {}
        /\ pending = swp.pre.pending
        /\ index = swp.pre.index
        /\ confirmed = swp.pre.confirmed

\* a cleanup request with hours=0 has been rejected while the index held an
\* entry that a scan with the cutoff at the present instant would have read
C27_Witness ==
  /\ swp.pre.on /\ swp.pc = "invalid"
  /\ swp.hours = 0 /\ swp.limit > 0
  /\ \E t \in DOMAIN index : t \in DOMAIN pending /\ index[t] <= now

\* ------------------------------------------------------------------ C28
\* the outcomes confirmPendingUpload returns to its route
Outcomes == {"ok", "pending_token_not_found", "video_id_mismatch"}

\* the confirm request lacked a field and has left the store as it was
RejectedUnwritten ==
  /\ confirmPOST_status(cfm) = 400
  /\ pending = cfm.pre.pending
  /\ index = cfm.pre.index
  /\ confirmed = cfm.pre.confirmed

\* C28 (as stated): a confirm request that lacks its token or its video id
\* is answered 400 and writes nothing; every other confirm request is
\* answered 200, also when the result is pending_token_not_found or
\* video_id_mismatch.
C28_ConfirmSurface ==
  Confirmed =>
     IF cfm.token = Missing \/ cfm.video = Missing
     THEN RejectedUnwritten
     ELSE confirmPOST_status(cfm) = 200

\* C28 (amended): ... every other confirm request during which no store call
\* is rejected is answered 200 with one of the results ok,
\* pending_token_not_found and video_id_mismatch.
C28_ConfirmSurfaceNoFault ==
  Confirmed =>
     IF cfm.token = Missing \/ cfm.video = Missing
     THEN RejectedUnwritten
     ELSE cfm.result # "store_error" =>
             /\ confirmPOST_status(cfm) = 200
             /\ cfm.result \in Outcomes

\* a confirm request with the token of a live record and no video id has
\* been rejected
C28_Witness ==
  /\ Confirmed
  /\ cfm.video = Missing
  /\ cfm.token \in DOMAIN pending
  /\ confirmPOST_status(cfm) = 400

\* ------------------------------------------------------------------ C29
\* the response of the cleanup request carries one result per record the
\* scan returned, in the order of the scan, and deleted is at most found
\* (found is pending.length, the number of records the scan returned)
CompleteResults ==
  /\ POST_status(swp) = 200
  /\ Len(swp.results) = Len(swp.out)
  /\ \A k \in 1..Len(swp.out) : swp.results[k] = swp.out[k].pending_token
  /\ swp.deleted <= Len(swp.out)

C30_StoreFailureSurfaced ==
  (Confirmed /\ cfm.token # Missing /\ cfm.video # Missing) =>
     /\ cfm.result \in Outcomes \cup {"store_error"}
     /\ cfm.result = "store_error" => confirmPOST_status(cfm) >= 500
     /\ confirmPOST_status(cfm) = 200 => cfm.result \in Outcomes

\* a confirm request has been answered 500 after its redis.del was rejected:
\* the marker is written, the pending record and the index entry are still
\* there
C30_Witness ==
  /\ Confirmed
  /\ cfm.result = "store_error"
  /\ confirmPOST_status(cfm) = 500
  /\ cfm.video \in confirmed /\ cfm.video \notin cfm.pre.confirmed
  /\ cfm.token \in DOMAIN pending /\ cfm.token \in DOMAIN index

\* ------------------------------------------------------------------ C31
\* C31: a 200 response of the create route carries a non-empty upload_link
\* and a non-empty video_id; when the reply of the host lacks either, the
\* route answers with an error.
C31_NoPartialSuccess ==
  Created =>
     /\ (200 <= crt.status /\ crt.status <= 299) =>
           createPOST_body(crt).upload_link /\ createPOST_body(crt).video_id
     /\ (~crt.reply.upload_link \/ crt.reply.uri # "full") =>
           ~(200 <= crt.status /\ crt.status <= 299)

\* the host has answered 2xx with an upload link and a uri that ends in a
\* slash, so that no video id can be taken from it, and the route has
\* answered with an error
C31_Witness ==
  /\ Created
  /\ crt.reply.ok /\ crt.reply.upload_link /\ crt.reply.uri = "noid"
  /\ crt.status = 500

\* ------------------------------------------------------------------ C32
\* a request to the handler has passed the validation and is being served
Served == swp.handler /\ swp.pc \notin {"idle", "invalid", "unauthorized"}

\* C32: the cutoff of a request the handler serves is now minus the minutes
\* parameter when minutes is supplied (whether or not hours is supplied
\* too), otherwise now minus hours * 60 minutes when hours is supplied,
\* otherwise now minus 24 hours; and the scan is given that cutoff (in the
\* unit of the index, the last whole hour not after it)
C32_CutoffSelection ==
  Served =>
     LET q == swp.query
     IN  /\ q.minutes.kind # "absent" =>
               /\ q.minutes.kind = "num"
               /\ swp.cutoffMin = now * 60 - q.minutes.n
         /\ (q.minutes.kind = "absent" /\ q.hours.kind # "absent") =>
               /\ q.hours.kind = "num"
               /\ swp.cutoffMin = now * 60 - q.hours.n * 60
         /\ (q.minutes.kind = "absent" /\ q.hours.kind = "absent") =>
               swp.cutoffMin = now * 60 - 24 * 60
         /\ DateParse(swp.cutoff) * 60 <= swp.cutoffMin
         /\ swp.cutoffMin < (DateParse(swp.cutoff) + 1) * 60

\* both parameters are supplied with different thresholds, and the scan
\* has selected a token with the one of minutes
C32_Witness ==
  /\ Served /\ swp.pc = "done"
  /\ swp.query.minutes = Numeral(2) /\ swp.query.hours = Numeral(1)
  /\ swp.cutoffMin = now * 60 - 2
  /\ Len(swp.tokens) > 0

\* ------------------------------------------------------------------ C33
\* token t has a live, indexed, unconfirmed record that is an hour old or
\* older, and the host would delete its video
Deletable(t) ==
  /\ t \in DOMAIN pending /\ t \in DOMAIN index
  /\ pending[t].video_id \notin confirmed
  /\ pending[t].video_id \notin Refused
  /\ DateParse(pending[t].created_at) + 1 <= now

C34_ScanBounds ==
  Scanned =>
    /\ \A k \in 1..Len(swp.out) :
          DateParse(swp.out[k].created_at) <= DateParse(swp.cutoff)
    /\ Len(swp.out) <= swp.limit

\* a scan has returned as many records as its limit allows while a live,
\* indexed record younger than the cutoff stayed out
C34_Witness ==
  /\ Scanned
  /\ Len(swp.out) = swp.limit
  /\ \E t \in DOMAIN pending \cap DOMAIN index :
        DateParse(pending[t].created_at) > DateParse(swp.cutoff)

\* ------------------------------------------------------------------ C35
\* the record or the index entry of token t is not what it was when the
\* scan began
Written(t) ==
  \/ (t \in DOMAIN pending) # (t \in DOMAIN swp.pre.pending)
  \/ t \in DOMAIN pending /\ pending[t] # swp.pre.pending[t]
  \/ (t \in DOMAIN index) # (t \in DOMAIN swp.pre.index)
  \/ t \in DOMAIN index /\ index[t] # swp.pre.index[t]

\* C35: listExpiredPending leaves the record and the index entry of every
\* token it returns as they were; the tokens it writes to are orphans of
\* the index or tokens whose video has a confirmed marker; and the set of
\* confirmed markers is what it was.
C35_ScanFrame ==
  Scanned =>
    /\ \A t \in OutTokens(swp) :
          /\ ~Written(t)
          /\ t \in DOMAIN pending /\ t \in DOMAIN index
    /\ \A t \in Tokens :
          Written(t) =>
             \/ t \in Orphans
             \/ /\ t \in DOMAIN swp.pre.pending
                /\ swp.pre.pending[t].video_id \in swp.pre.confirmed
    /\ confirmed = swp.pre.confirmed

\* one scan has returned a record and has written to another token
C35_Witness ==
  /\ Scanned
  /\ \E t \in OutTokens(swp), u \in Tokens : Written(u) /\ ~Written(t)

\* ------------------------------------------------------------------ C36
\* the handler has ended its loop
Swept == Served /\ swp.pc = "done" /\ swp.pre.on

\* the loop has ended, every item has its result, and for each item whose
\* remote delete succeeded and whose markDeleted failed the failure is with
\* the item and its video is gone from the host
RetireFailureRecorded ==
  /\ Len(swp.results) = Len(swp.out)
  /\ \A k \in 1..Len(swp.out) :
        swp.out[k].pending_token \in swp.markErrors =>
           /\ swp.results[k] = swp.out[k].pending_token
           /\ swp.out[k].video_id \notin vimeo
           /\ swp.out[k].pending_token \notin swp.failed

\* C36 as stated: after a remote delete that succeeded and a retire that
\* failed with a store error the record stays in the store and in the
\* index, and the failure is recorded on the item without aborting the
\* batch.
C36_RetireFailureKeepsRecord ==
  Swept =>
     /\ RetireFailureRecorded
     /\ \A t \in swp.markErrors :
           t \in DOMAIN pending /\ t \in DOMAIN index

\* the item the loop of the handler has just finished
LastItem == swp.out[swp.j - 1]

\* C36 as amended: after a remote delete that succeeded and a retire that
\* failed the index entry stays (the record stays with it unless the store
\* failed after the record was deleted), the failure is recorded on the
\* item and the batch goes on; a later sweep that finds the record again
\* gets "already gone" from the host, takes it for a success and retires
\* the record, and one that finds the index entry alone prunes it.
C36_RetireFailureRecovered ==
  /\ Swept =>
        /\ RetireFailureRecorded
        /\ \A t \in swp.markErrors : t \in DOMAIN index
  /\ (Served /\ swp.pre.on /\ swp.pc \in {"check", "done"} /\ swp.j > 1
        /\ LastItem.pending_token \in swp.unretired
        /\ LastItem.video_id \in swp.remoteCalls
        /\ swp.status = 404) =>
        /\ LastItem.pending_token \notin swp.failed
        /\ LastItem.pending_token \notin swp.markErrors =>
              /\ LastItem.pending_token \notin DOMAIN pending
              /\ LastItem.pending_token \notin DOMAIN index
  /\ (Served /\ Scanned) =>
        \A t \in swp.unretired :
           (t \in Orphans /\ Covered(swp.pre.index, t, DateParse(swp.cutoff),
                                     swp.limit))
           => t \notin DOMAIN index

\* a sweep has deleted again, with the answer "already gone", the video of
\* a record whose retire failed in the sweep before, and has retired it
C36_Witness ==
  /\ Swept /\ swp.j > 1
  /\ LastItem.pending_token \in swp.unretired
  /\ swp.status = 404
  /\ LastItem.video_id \in swp.remoteCalls
  /\ LastItem.pending_token \notin DOMAIN pending
  /\ LastItem.pending_token \notin DOMAIN index

\* ------------------------------------------------------------------ C37
\* C37: when the confirmed check of an item fails with a store error the
\* handler does not abort: the item goes on to the remote delete as an
\* unconfirmed one does, and the loop ends with a result for every item.
C37_FailOpen ==
  (Served /\ swp.checkErrors # {}) =>
     /\ swp.pc # "error"
     /\ \A k \in 1..Len(swp.out) :
           swp.out[k].pending_token \in swp.checkErrors =>
              \/ k = swp.j /\ swp.pc = "remote"
              \/ swp.out[k].video_id \in swp.remoteCalls
     /\ swp.pc = "done" => Len(swp.results) = Len(swp.out)

\* the check of the first of two items failed, the item was deleted on the
\* host and retired, and the loop went on to the second item
C37_Witness ==
  /\ Swept
  /\ Len(swp.out) = 2
  /\ swp.out[1].pending_token \in swp.checkErrors
  /\ swp.out[1].video_id \in swp.remoteCalls
  /\ swp.out[1].pending_token \notin DOMAIN pending
  /\ swp.out[2].video_id \in swp.remoteCalls

\* ------------------------------------------------------------------ C39
\* a cleanup request is in flight that came without the matching
\* credential while a secret is configured
Unmatched ==
  /\ swp.pc # "idle" /\ swp.pre.on
  /\ swp.pre.secret /\ swp.pre.provided # "match"

\* C39: with a secret configured, a cleanup request (to the cleanup route
\* or to the handler of the cron route) that does not present the matching
\* credential is answered 401 Unauthorized, and it runs no scan, calls no
\* remote delete and writes nothing to the store.
C39_SweepAuthorization ==
  Unmatched =>
     /\ swp.pc = "unauthorized"
     /\ POST_status(swp) = 401
     /\ swp.cutoff = InvalidDate /\ swp.tokens = << >> /\ swp.out = << >>
     /\ swp.remoteCalls = {}
     /\ pending = swp.pre.pending
     /\ index = swp.pre.index
     /\ confirmed = swp.pre.confirmed

\* a request with a wrong credential is refused while a stale record that
\* a sweep would have scanned is in the index
C39_Witness ==
  /\ Unmatched
  /\ swp.pre.provided = "wrong"
  /\ swp.pc = "unauthorized"
  /\ \E t \in DOMAIN pending \cap DOMAIN index : index[t] + 1 <= now

\* ------------------------------------------------------------------ C38
\* C38: in the status-based store, under every interleaving of
\* confirmByToken with listExpiredPending, the list holds no record whose
\* status is confirmed.
C38_ConfirmedNeverListed ==
  \A k \in 1..Len(swp.out) : swp.out[k].status # "confirmed"

====
